---- MODULE Spec2Model ----
(***************************************************************************)
(* Model of tauri-nssplitview: the registry of split views (src/src/lib.rs)*)
(* and BasicSplitView with its window-delegate protocol and its conversion *)
(* of a window (src/src/splitview.rs), and SplitViewBuilder                *)
(* (src/src/builder.rs).                                                   *)
(*                                                                         *)
(* Spec runs the calls one after the other; SpecView adds the calls on the *)
(* window and the panes of a split view; SpecBuilder is the builder;       *)
(* SpecLock splits the registry calls into the steps of concurrent threads.*)
(* SpecSetters has the setters of BasicSplitView that are placeholders.    *)
(*                                                                         *)
(* Every identity is a string: a label, a split view instance (which is    *)
(* also the identity of its NSSplitView container view), a window          *)
(* delegate.  None stands for Rust's Option::None and for Objective-C nil. *)
(***************************************************************************)
EXTENDS Integers, Sequences, FiniteSets, TLC

\* Bound: how many conversions (BasicSplitView instances) a run creates.
MaxViews == 2

\* Bound: how many panes a container or a builder's pane list holds.
MaxPanes == 2

\* Bound: the width of usize in bits (64 on the targets of the crate; the
\* arithmetic of the model wraps at this width).
UsizeBits == 3

None == "none"
SplitViewNotFound == "SplitViewNotFound"
ConversionError == "Failed to get NSWindow"

\* The windows of the application, by label, and the keys a caller looks up.
Labels == {"main"}
Keys == Labels \cup {"nonexistent"}

\* Names of the instances, in order of creation.
IdNames == <<"sv1", "sv2", "sv3", "sv4", "sv5">>
Ids == {IdNames[i] : i \in 1..MaxViews}

\* The content view a window has before any conversion (its webview).
WebviewOf == [l \in Labels |-> IF l = "main" THEN "webview_main" ELSE "webview_aux"]

\* Custom event handlers a caller installs, and the delegate the windowing
\* runtime gave the window when it built it.
Handlers == {"h1", "h2"}
RuntimeDelegate == "runtime_delegate"

\* The threads that call into the registry.
Threads == {"t1", "t2"}

\* usize arithmetic that wraps at the width.
WrappingSub(a, b) == (a - b) % (2^UsizeBits)

\* The divider indices a caller asks about: the first ones and usize::MAX.
DividerIndexes == {0, 1, 2, 2^UsizeBits - 1}

\* Native views a caller creates and adds as panes.  ContentFrame is the
\* frame of a window's content; NSSplitView tiles it with its n subviews.
NativeViews == {"native_a", "native_b"}
ContentFrame == [x |-> 0, y |-> 0, w |-> 120, h |-> 60]
Layout(n) ==
    [k \in 1..n |-> [x |-> ((k - 1) * ContentFrame.w) \div n, y |-> ContentFrame.y,
                     w |-> ContentFrame.w \div n, h |-> ContentFrame.h]]

\* The divider thickness AppKit gives a new NSSplitView.
NativeThickness == "thin"

\* The divider thicknesses a caller asks for.
Thicknesses == {"thick"}

VARIABLES
    split_views,        \* Store.split_views: a set of <<label, handle>> entries
    nextId,             \* index in IdNames of the next instance to create
    live,               \* instances not yet dropped (Arc strong count > 0)
    held,               \* instances a caller holds a handle (Arc clone) of
    label,              \* BasicSplitView.label
    original_delegate,  \* BasicSplitView.original_delegate (OnceCell)
    event_handler,      \* BasicSplitView.event_handler (RefCell<Option>)
    subviews,           \* the subviews of each instance's NSSplitView
    delegate,           \* NSWindow.delegate of each window
    contentView,        \* NSWindow.contentView of each window
    open,               \* the window still exists (its NSWindow is available)
    registered,         \* history: the handle last registered under a key and not removed since
    firstDelegate,      \* history: the window's delegate before the first install on an instance
    scenario,           \* history: progress of "convert, install, uninstall, uninstall" in a row
    lastOp,             \* history: the last set_event_handler call on an instance
    lastCall,           \* history: the last call, its argument and what it returned
    visible,            \* NSWindow.isVisible of each window
    vertical,           \* NSSplitView.isVertical of each instance's container
    frames,             \* the frame of each subview of each instance's container
    dividerThickness,   \* NSSplitView.dividerThickness of each instance's container
    probe,              \* history: the last call on a split view and its outcome
    builder,            \* the SplitViewBuilder under construction, or NoBuilder
    built,              \* history: the last build(), the window it asked for, its result
    created,            \* labels of the windows the application has constructed
    lock,               \* SplitViewManager's Mutex: the thread that holds it, or None
    pc,                 \* where each thread is in its registry call
    job,                \* the locals of each thread's registry call
    under_lock          \* history: the instance released while the lock was held, or None

vars == <<split_views, nextId, live, held, label, original_delegate, event_handler,
          subviews, delegate, contentView, open, registered, firstDelegate,
          scenario, lastOp, lastCall, visible, vertical, frames, dividerThickness,
          probe, builder, built, created, lock, pc, job, under_lock>>

registry == <<split_views>>
instances == <<nextId, live, label, subviews>>
windows == <<delegate, contentView, open>>
delegation == <<original_delegate, event_handler>>
native == <<visible, vertical, frames, dividerThickness>>
building == <<builder, built, created>>
locking == <<lock, pc, job, under_lock>>

-----------------------------------------------------------------------------
(* HashMap<String, SplitViewHandle<R>> as a set of <<key, value>> entries.  *)

HashMapGet(m, k) ==
    IF \E p \in m : p[1] = k THEN (CHOOSE p \in m : p[1] = k)[2] ELSE None

\* Faulty variants of insert: one keeps the entry a key already has, one
\* keeps the old entry next to the new one.
HashMapInsertIfAbsent(m, k, v) ==
    IF \E p \in m : p[1] = k THEN m ELSE m \cup {<<k, v>>}

HashMapInsertKeepBoth(m, k, v) == m \cup {<<k, v>>}

\* Faulty variant: the entry goes under a key that is not the one given.
HashMapInsertUnderOtherKey(m, k, v) ==
    {p \in m : p[1] # k} \cup {<<CHOOSE o \in Keys : o # k, v>>}

HashMapInsert(m, k, v) == {p \in m : p[1] # k} \cup {<<k, v>>}

\* Faulty variants of remove: one leaves the entry in the map, one empties
\* the map.
HashMapRemoveKeeps(m, k) == m

HashMapRemoveClears(m, k) == {}

HashMapRemove(m, k) == {p \in m : p[1] # k}

\* Faulty variant of the lookup: it takes an entry of the map whatever its key.
get_split_view_any_key(k) ==
    IF split_views = {} THEN SplitViewNotFound
    ELSE (CHOOSE p \in split_views : TRUE)[2]

\* ManagerExt::get_split_view: the handle, or Err(SplitViewNotFound).
get_split_view(k) ==
    IF HashMapGet(split_views, k) = None THEN SplitViewNotFound
    ELSE HashMapGet(split_views, k)

\* An instance is dropped when the registry and every caller let go of it.
Referenced(m, h) == {s \in Ids : s \in h \/ \E p \in m : p[2] = s}

\* The fields of the instances in lv; those of a dropped instance are gone.
Keep(f, lv, gone) == [s \in Ids |-> IF s \in lv THEN f[s] ELSE gone]

-----------------------------------------------------------------------------
(* BasicSplitView::window: the NSWindow whose view hierarchy holds the      *)
(* container, or None.                                                      *)

RECURSIVE InHierarchy(_, _, _)
InHierarchy(v, root, fuel) ==
    \/ v = root
    \/ /\ fuel > 0
       /\ root \in Ids
       /\ \E i \in 1..Len(subviews[root]) : InHierarchy(v, subviews[root][i], fuel - 1)

\* Faulty variant: the window is looked up by the stored label, whether or
\* not it is still there.
window_by_label(s) == label[s]

window(s) ==
    IF \E l \in Labels : open[l] /\ InHierarchy(s, contentView[l], MaxViews)
    THEN CHOOSE l \in Labels : open[l] /\ InHierarchy(s, contentView[l], MaxViews)
    ELSE None

-----------------------------------------------------------------------------
\* Store::default gives an empty map.  A window enters with the delegate its
\* runtime installed or with none: set_event_handler reads window.delegate()
\* as an Option and provides for both.
\*
\* scenario follows a freshly converted instance sv through the calls
\* install, install / install, uninstall, uninstall / install, uninstall,
\* install, as long as nothing else happens in between; conv is the delegate
\* the window had when it was converted.
Idle == [sv |-> None, step |-> "none", conv |-> None]

ScenarioStep(step, h) ==
    CASE step = "fresh" /\ h # None -> "installed"
      [] step = "installed" /\ h # None -> "installed_twice"
      [] step = "installed" /\ h = None -> "restored"
      [] step = "restored" /\ h = None -> "restored_twice"
      [] step = "restored" /\ h # None -> "reinstalled"
      [] OTHER -> "none"

\* No call on a split view yet, no builder, no build, no registry call.
NoProbe == [op |-> "none", sv |-> None, index |-> 0, status |-> "none", value |-> 0,
            flag |-> FALSE]

NoBuilder == [active |-> FALSE, label |-> None, title |-> None, position |-> None,
              size |-> None, orientation |-> None, divider_thickness |-> None,
              panes |-> <<>>, window_fn |-> None]

NoBuild == [label |-> None, panes |-> <<>>, orientation |-> None,
            divider_thickness |-> None, url |-> None, title |-> None,
            position |-> None, size |-> None, steps |-> <<>>, result |-> None]

NoJob == [op |-> "none", key |-> None, sv |-> None, ret |-> None, evicted |-> None,
          expect |-> None]

\* Everything but the windows: Store::default, no instance, no call made.
Start ==
    /\ split_views = {}
    /\ nextId = 1
    /\ live = {}
    /\ held = {}
    /\ label = [s \in Ids |-> None]
    /\ original_delegate = [s \in Ids |-> None]
    /\ event_handler = [s \in Ids |-> None]
    /\ subviews = [s \in Ids |-> <<>>]
    /\ delegate \in [Labels -> {RuntimeDelegate, None}]
    /\ contentView = WebviewOf
    /\ registered = [k \in Keys |-> None]
    /\ firstDelegate = [s \in Ids |-> "unset"]
    /\ scenario = Idle
    /\ lastOp = [s \in Ids |-> "none"]
    /\ lastCall = [op |-> "init", arg |-> None, ret |-> None, pre |-> None]
    /\ visible = [l \in Labels |-> TRUE]
    /\ vertical = [s \in Ids |-> FALSE]
    /\ frames = [s \in Ids |-> <<>>]
    /\ dividerThickness = [s \in Ids |-> None]
    /\ probe = NoProbe
    /\ builder = NoBuilder
    /\ built = NoBuild
    /\ lock = None
    /\ pc = [t \in Threads |-> "idle"]
    /\ job = [t \in Threads |-> NoJob]
    /\ under_lock = None

\* The application has built its windows before the plugin is used.
Init ==
    /\ Start
    /\ open = [l \in Labels |-> TRUE]
    /\ created = Labels

Call(op, arg, ret, pre) == [op |-> op, arg |-> arg, ret |-> ret, pre |-> pre]

-----------------------------------------------------------------------------
(* FromWindow::from_window for BasicSplitView                               *)

\* Faulty variant: the conversion does not install the container.
SetContentViewOmitted(l, s) == contentView

\* setContentView: the new NSSplitView becomes the window's content view.
SetContentView(l, s) == [contentView EXCEPT ![l] = s]

\* Faulty variant: the previous content view is not added to the container.
AddOriginalSubviewOmitted(l, s) == subviews

\* addSubview: the window's previous content view becomes the first pane.
AddOriginalSubview(l, s) == [subviews EXCEPT ![s] = Append(subviews[s], contentView[l])]

\* initWithFrame and addSubview: the previous content view fills the container.
AddOriginalFrame(l, s) == [frames EXCEPT ![s] = Layout(Len(subviews[s]) + 1)]

\* setVertical: true, "for side-by-side panes".
SetVertical(s) == [vertical EXCEPT ![s] = TRUE]

\* Faulty variant: the conversion goes on with a null NSWindow.
ns_window_unchecked(l) == l

\* WebviewWindow::ns_window: the NSWindow of the window, or None for an error.
ns_window(l) == IF open[l] THEN l ELSE None

\* WebviewWindowExt::to_split_view: convert the window, register the handle
\* under the window's label, return the handle.  With the NSWindow
\* unavailable from_window fails and `?` returns before anything is touched.
ToSplitView(l) ==
    /\ ns_window(l) # None => nextId <= MaxViews
    /\ UNCHANGED <<visible, probe, building, locking>>
    /\ IF ns_window(l) = None
       THEN /\ lastCall' = Call("to_split_view", l, ConversionError, registered[l])
            /\ scenario' = Idle
            /\ UNCHANGED <<registry, instances, windows, delegation, held,
                           registered, firstDelegate, lastOp, vertical, frames,
                           dividerThickness>>
       ELSE LET s == IdNames[nextId] IN
            /\ contentView' = SetContentView(l, s)
            /\ subviews' = AddOriginalSubview(l, s)
            /\ frames' = AddOriginalFrame(l, s)
            /\ vertical' = SetVertical(s)
            /\ dividerThickness' = [dividerThickness EXCEPT ![s] = NativeThickness]
            /\ label' = [label EXCEPT ![s] = l]
            /\ nextId' = nextId + 1
            /\ split_views' = HashMapInsert(split_views, l, s)
            /\ held' = held \cup {s}
            /\ live' = Referenced(split_views', held')
            /\ original_delegate' = Keep(original_delegate, live', None)
            /\ event_handler' = Keep(event_handler, live', None)
            /\ registered' = [registered EXCEPT ![l] = s]
            /\ scenario' = [sv |-> s, step |-> "fresh", conv |-> delegate[l]]
            /\ firstDelegate' = Keep(firstDelegate, live', "unset")
            /\ lastOp' = Keep(lastOp, live', "none")
            /\ lastCall' = Call("to_split_view", l, s, registered[l])
            /\ UNCHANGED <<delegate, open>>

\* ManagerExt::get_split_view: a clone of the registered handle, or the error.
GetSplitView(k) ==
    LET ret == get_split_view(k) IN
    /\ held' = IF ret = SplitViewNotFound THEN held ELSE held \cup {ret}
    /\ lastCall' = Call("get_split_view", k, ret, None)
    /\ scenario' = Idle
    /\ UNCHANGED <<registry, instances, windows, delegation, registered,
                   firstDelegate, lastOp, native, probe, building, locking>>

\* What HashMap::remove returns: the value of the key, or None.
remove_return(k) == HashMapGet(split_views, k)

\* ManagerExt::remove_split_view: HashMap::remove, the removed handle goes
\* to the caller.
RemoveSplitView(k) ==
    LET ret == remove_return(k) IN
    /\ split_views' = HashMapRemove(split_views, k)
    /\ held' = IF ret = None THEN held ELSE held \cup {ret}
    /\ live' = Referenced(split_views', held')
    /\ registered' = [registered EXCEPT ![k] = None]
    /\ lastCall' = Call("remove_split_view", k, ret, registered[k])
    /\ scenario' = Idle
    /\ UNCHANGED <<nextId, label, subviews, windows, delegation,
                   firstDelegate, lastOp, native, probe, building, locking>>

\* A caller drops its handle; the instance is dropped with its last handle.
DropHandle(s) ==
    /\ s \in held
    /\ held' = held \ {s}
    /\ live' = Referenced(split_views, held')
    /\ original_delegate' = Keep(original_delegate, live', None)
    /\ event_handler' = Keep(event_handler, live', None)
    /\ firstDelegate' = Keep(firstDelegate, live', "unset")
    /\ lastOp' = Keep(lastOp, live', "none")
    /\ scenario' = Idle
    /\ lastCall' = Call("drop", None, None, None)
    /\ UNCHANGED <<registry, nextId, label, subviews, windows, registered,
                   native, probe, building, locking>>

\* The window is closed by the user or the host: from then on its NSWindow
\* is unavailable and BasicSplitView::window returns None.
WindowClosed(l) ==
    /\ open[l]
    /\ open' = [open EXCEPT ![l] = FALSE]
    /\ lastCall' = Call("window_closed", None, None, None)
    /\ scenario' = Idle
    /\ UNCHANGED <<registry, instances, held, delegate, contentView, delegation,
                   registered, firstDelegate, lastOp, native, probe, building,
                   locking>>

-----------------------------------------------------------------------------
(* SplitView::set_event_handler for BasicSplitView                          *)

\* Faulty variant: every install captures the delegate it replaces.
CaptureOnEveryInstall(orig, cur, windowDelegate) ==
    IF windowDelegate # None THEN windowDelegate ELSE orig

\* Some(h), "Store original delegate if this is the first time".
CaptureOriginal(orig, cur, windowDelegate) ==
    IF cur = None /\ orig = None /\ windowDelegate # None
    THEN windowDelegate ELSE orig

\* Faulty variant: None clears event_handler also on the early return.
ClearedHandlerAlways(orig, cur, windowDelegate) == None

\* None: the value of event_handler after the call (unchanged on the early
\* return, cleared otherwise).
ClearedHandler(orig, cur, windowDelegate) == IF orig = None THEN cur ELSE None

\* Faulty variant: with no custom handler stored, None clears the window's
\* delegate instead of setting the original one again.
RestoredDelegateNilWhenIdle(orig, cur, windowDelegate) ==
    IF orig = None THEN windowDelegate
    ELSE IF cur = None THEN None ELSE orig

\* None: the window's delegate after the call (unchanged on the early
\* return, the original delegate otherwise).
RestoredDelegate(orig, cur, windowDelegate) ==
    IF orig = None THEN windowDelegate ELSE orig

SetEventHandler(s, h) ==
    LET w == window(s) IN
    /\ s \in held
    /\ IF w = None
       THEN UNCHANGED <<delegation, delegate>>
       ELSE IF h # None
       THEN /\ original_delegate' = [original_delegate EXCEPT
                    ![s] = CaptureOriginal(original_delegate[s], event_handler[s], delegate[w])]
            /\ event_handler' = [event_handler EXCEPT ![s] = h]
            /\ delegate' = [delegate EXCEPT ![w] = h]
       ELSE /\ event_handler' = [event_handler EXCEPT
                    ![s] = ClearedHandler(original_delegate[s], event_handler[s], delegate[w])]
            /\ delegate' = [delegate EXCEPT
                    ![w] = RestoredDelegate(original_delegate[s], event_handler[s], delegate[w])]
            /\ UNCHANGED original_delegate
    /\ firstDelegate' = IF h # None /\ firstDelegate[s] = "unset"
                        THEN [firstDelegate EXCEPT ![s] = delegate[label[s]]]
                        ELSE firstDelegate
    /\ lastOp' = [lastOp EXCEPT ![s] = IF h # None THEN "install" ELSE "uninstall"]
    /\ scenario' = IF scenario.sv = s /\ ScenarioStep(scenario.step, h) # "none"
                   THEN [scenario EXCEPT !.step = ScenarioStep(scenario.step, h)]
                   ELSE Idle
    /\ lastCall' = Call(IF h # None THEN "install" ELSE "uninstall", s, None, None)
    /\ UNCHANGED <<registry, instances, held, contentView, open, registered,
                   native, probe, building, locking>>

-----------------------------------------------------------------------------
Next ==
    \/ \E l \in Labels : ToSplitView(l)
    \/ \E k \in Keys : GetSplitView(k)
    \/ \E k \in Keys : RemoveSplitView(k)
    \/ \E s \in Ids : DropHandle(s)
    \/ \E l \in Labels : WindowClosed(l)
    \/ \E s \in Ids, h \in Handlers \cup {None} : SetEventHandler(s, h)

Spec == Init /\ [][Next]_vars

-----------------------------------------------------------------------------
(* Registry: P1, P2, P3, I1, Scenario C                                     *)

\* C1: a get_split_view(L) issued while the handle H that to_split_view
\* registered under L is still the last one registered, and not removed,
\* returns H.
C1_LookupReturnsRegistered ==
    (lastCall.op = "get_split_view" /\ registered[lastCall.arg] # None)
        => lastCall.ret = registered[lastCall.arg]

\* A lookup has returned the handle of a second conversion of the window.
C1_Witness ==
    /\ lastCall.op = "get_split_view"
    /\ lastCall.ret = IdNames[2]
    /\ registered[lastCall.arg] = IdNames[2]

\* C2: the registry holds at most one entry per label; the entry of a
\* registered label is the handle registered last, and right after a
\* re-registration the lookup gives the new handle and the old handle is in
\* no entry.
C2_OneHandlePerLabel ==
    /\ \A p \in split_views : \A q \in split_views : p[1] = q[1] => p = q
    /\ \A k \in Keys : registered[k] # None =>
           {p \in split_views : p[1] = k} = {<<k, registered[k]>>}
    /\ (lastCall.op = "to_split_view" /\ lastCall.ret \in Ids /\ lastCall.pre # None) =>
           /\ get_split_view(lastCall.arg) = lastCall.ret
           /\ \A p \in split_views : p[2] # lastCall.pre

\* A label has been registered a second time while the first handle was
\* still registered.
C2_Witness ==
    /\ lastCall.op = "to_split_view"
    /\ lastCall.pre \in Ids
    /\ lastCall.ret \in Ids
    /\ lastCall.ret # lastCall.pre

\* C3: remove_split_view(L) on a registered L returns the registered handle
\* and leaves no entry for L; as long as L is not registered again a lookup
\* of L fails with SplitViewNotFound.
C3_RemoveReturnsAndUnregisters ==
    /\ (lastCall.op = "remove_split_view" /\ lastCall.pre # None) =>
           /\ lastCall.ret = lastCall.pre
           /\ \A p \in split_views : p[1] # lastCall.arg
    /\ \A k \in Keys :
           registered[k] = None => get_split_view(k) = SplitViewNotFound

\* A registered handle has been removed and returned.
C3_Witness ==
    /\ lastCall.op = "remove_split_view"
    /\ lastCall.pre \in Ids
    /\ lastCall.ret = lastCall.pre
    /\ get_split_view(lastCall.arg) = SplitViewNotFound

\* C4: get_split_view(L) fails with SplitViewNotFound exactly when no handle
\* is registered under L, and the failing lookup leaves the registry as it
\* was.
C4_NotFoundIffUnregistered ==
    [][lastCall'.op = "get_split_view" =>
          /\ (lastCall'.ret = SplitViewNotFound) <=> (registered[lastCall'.arg] = None)
          /\ lastCall'.ret = SplitViewNotFound => split_views' = split_views]_vars

\* A lookup of the window's label has failed after its handle was removed,
\* the removed handle still being held by a caller.
C4_Witness ==
    /\ lastCall.op = "get_split_view"
    /\ lastCall.arg \in Labels
    /\ lastCall.ret = SplitViewNotFound
    /\ live # {}

\* C5: remove_split_view(L) on an unregistered L returns None and leaves
\* every entry of the registry as it was.
C5_RemoveUnregisteredIsNoop ==
    [][(lastCall'.op = "remove_split_view" /\ registered[lastCall'.arg] = None) =>
          /\ lastCall'.ret = None
          /\ split_views' = split_views]_vars

\* An unregistered key has been removed while another label was registered.
C5_Witness ==
    /\ lastCall.op = "remove_split_view"
    /\ lastCall.pre = None
    /\ lastCall.ret = None
    /\ split_views # {}

-----------------------------------------------------------------------------
(* Delegate protocol: P4, P5, I2, Scenario B                                *)

\* C6: when set_event_handler(None) follows one or more
\* set_event_handler(Some(h_i)) calls on a split view whose window is
\* resolvable, the window's delegate afterwards is the one it had before the
\* first handler was installed through this split view; an install that
\* follows an install leaves original_delegate as it was.
C6_UninstallRestoresFirstDelegate ==
    [][\A s \in Ids :
          /\ (lastCall'.op = "uninstall" /\ lastCall'.arg = s
                 /\ lastOp[s] = "install" /\ window(s) # None)
                => delegate'[label[s]] = firstDelegate[s]
          /\ (lastCall'.op = "install" /\ lastCall'.arg = s /\ lastOp[s] = "install")
                => original_delegate'[s] = original_delegate[s]]_vars

\* C7: on a freshly converted window, set_event_handler(Some(h)) followed
\* at once by set_event_handler(None) leaves the window's delegate equal to
\* the one it had when it was converted, whether that was a delegate or none.
C7_FreshInstallUninstallRestores ==
    scenario.step = "restored" => delegate[label[scenario.sv]] = scenario.conv

\* C8: a set_event_handler(None) that directly follows a
\* set_event_handler(None) on the same split view changes neither the
\* window's delegate nor original_delegate nor event_handler.
C8_UninstallIdempotent ==
    [][\A s \in Ids :
          (lastCall.op = "uninstall" /\ lastCall.arg = s
              /\ lastCall'.op = "uninstall" /\ lastCall'.arg = s)
             => UNCHANGED <<delegate, original_delegate, event_handler>>]_vars

\* After convert, install, uninstall, uninstall the original delegate is
\* captured and active again.
C8_Witness ==
    /\ scenario.step = "restored_twice"
    /\ original_delegate[scenario.sv] # None
    /\ event_handler[scenario.sv] = None
    /\ delegate[label[scenario.sv]] = original_delegate[scenario.sv]

\* C9: original_delegate of an instance changes only from absent to
\* present, only in a set_event_handler(Some(h)) step, and only in a state
\* where event_handler is absent; once present it keeps its value for the
\* life of the instance.
C9_OriginalDelegateWriteOnce ==
    [][\A s \in Ids :
          (s \in live' /\ original_delegate'[s] # original_delegate[s])
             => /\ original_delegate[s] = None
                /\ event_handler[s] = None
                /\ lastCall'.op = "install"
                /\ lastCall'.arg = s]_vars

\* A later install has run on an instance whose original delegate was
\* captured by its first install.
C9_Witness ==
    /\ scenario.step \in {"installed_twice", "reinstalled"}
    /\ original_delegate[scenario.sv] # None
    /\ event_handler[scenario.sv] # None

-----------------------------------------------------------------------------
(* Conversion: I4                                                           *)

Index(s) == CHOOSE i \in 1..MaxViews : IdNames[i] = s

\* The window of instance s has been converted again after s was created.
ConvertedAgain(s) ==
    \E t \in Ids : label[t] = label[s] /\ Index(t) > Index(s) /\ Index(t) < nextId

\* C10 as stated: the container of every instance that is not dropped is
\* the content view of its window.
C10_ContainerStaysContentView ==
    \A s \in live : contentView[label[s]] = s

\* C10 amended: the container of an instance that is not dropped is the
\* content view of its window until that window is converted again; from
\* then on it is not the content view but lies below it, in the hierarchy of
\* the newer container.
C10_ContainerStaysUntilConvertedAgain ==
    \A s \in live :
        IF ConvertedAgain(s)
        THEN /\ contentView[label[s]] # s
             /\ InHierarchy(s, contentView[label[s]], MaxViews)
        ELSE contentView[label[s]] = s

\* Two instances of one window are alive, the newer one's container is the
\* content view, and a handler was installed or an entry removed since.
C10_Witness ==
    /\ \E s \in live : \E t \in live :
          /\ s # t
          /\ label[s] = label[t]
          /\ contentView[label[s]] = t
          /\ subviews[t] = <<s>>
    /\ lastCall.op \in {"install", "uninstall", "remove_split_view"}

-----------------------------------------------------------------------------
(* SplitView for BasicSplitView: the window, the orientation, the panes.    *)
(* A caller reaches the NSSplitView through as_split_view and a pane        *)
(* through pane_at_index, and adds or removes subviews with them.           *)

\* What SpecView and the other specifications leave alone of the registry,
\* the instances' fields and the windows' delegates.
plugin == <<split_views, nextId, live, held, label, original_delegate, event_handler,
            delegate, contentView, open, registered, firstDelegate, scenario,
            lastOp, lastCall>>

Called(op, s, i, status, value, flag) ==
    [op |-> op, sv |-> s, index |-> i, status |-> status, value |-> value, flag |-> flag]

\* Faulty variant: show looks the window up by the label, not by the view.
ShownByLabel(s) == [visible EXCEPT ![label[s]] = TRUE]

\* show: orderFrontRegardless on the window the container is in, if any.
Shown(s) == IF window(s) = None THEN visible ELSE [visible EXCEPT ![window(s)] = TRUE]

\* hide: orderOut on the window the container is in, if any.
Hidden(s) == IF window(s) = None THEN visible ELSE [visible EXCEPT ![window(s)] = FALSE]

is_visible(s) == IF window(s) = None THEN FALSE ELSE visible[window(s)]

is_vertical(s) == vertical[s]

pane_count(s) == Len(subviews[s])

pane_at_index(s, index) == IF index < pane_count(s) THEN subviews[s][index + 1] ELSE None

\* get_divider_position with the outcome of the call: "ok" and the value,
\* "panic" for the overflow of count - 1 in a build with overflow checks,
\* "exception" for objectAtIndex beyond the array (NSRangeException).
\* Without overflow checks count - 1 wraps.
get_divider_position(s, divider_index, overflow_checks) ==
    LET count == pane_count(s) IN
    IF overflow_checks /\ count < 1
    THEN [status |-> "panic", value |-> 0]
    ELSE IF divider_index >= WrappingSub(count, 1)
    THEN [status |-> "ok", value |-> 0]
    ELSE IF divider_index >= count
    THEN [status |-> "exception", value |-> 0]
    ELSE LET frame == frames[s][divider_index + 1] IN
         [status |-> "ok",
          value |-> IF is_vertical(s) THEN frame.x + frame.w ELSE frame.y + frame.h]

RemoveAt(seq, i) == [j \in 1..(Len(seq) - 1) |-> IF j < i THEN seq[j] ELSE seq[j + 1]]

Show(s) ==
    /\ s \in held
    /\ visible' = Shown(s)
    /\ probe' = Called("show", s, 0, "ok", 0, FALSE)
    /\ UNCHANGED <<plugin, subviews, vertical, frames, dividerThickness, building, locking>>

Hide(s) ==
    /\ s \in held
    /\ visible' = Hidden(s)
    /\ probe' = Called("hide", s, 0, "ok", 0, FALSE)
    /\ UNCHANGED <<plugin, subviews, vertical, frames, dividerThickness, building, locking>>

IsVisible(s) ==
    /\ s \in held
    /\ probe' = Called("is_visible", s, 0, "ok", 0, is_visible(s))
    /\ UNCHANGED <<plugin, subviews, native, building, locking>>

IsVertical(s) ==
    /\ s \in held
    /\ probe' = Called("is_vertical", s, 0, "ok", 0, is_vertical(s))
    /\ UNCHANGED <<plugin, subviews, native, building, locking>>

PaneCount(s) ==
    /\ s \in held
    /\ probe' = Called("pane_count", s, 0, "ok", pane_count(s), FALSE)
    /\ UNCHANGED <<plugin, subviews, native, building, locking>>

\* The build profile decides whether count - 1 is checked or wraps.
GetDividerPosition(s, divider_index) ==
    /\ s \in held
    /\ \E overflow_checks \in BOOLEAN :
          LET r == get_divider_position(s, divider_index, overflow_checks) IN
          probe' = Called("get_divider_position", s, divider_index, r.status, r.value,
                          overflow_checks)
    /\ UNCHANGED <<plugin, subviews, native, building, locking>>

\* A caller adds a native view to the container: as_split_view, addSubview.
AddPane(s, v) ==
    /\ s \in held
    /\ Len(subviews[s]) < MaxPanes
    /\ \A u \in Ids : \A i \in 1..Len(subviews[u]) : subviews[u][i] # v
    /\ subviews' = [subviews EXCEPT ![s] = Append(subviews[s], v)]
    /\ frames' = [frames EXCEPT ![s] = Layout(Len(subviews[s]) + 1)]
    /\ probe' = Called("add_pane", s, Len(subviews[s]), "ok", 0, FALSE)
    /\ UNCHANGED <<plugin, visible, vertical, dividerThickness, building, locking>>

\* A caller takes a pane out of the container: pane_at_index,
\* removeFromSuperview.
RemovePane(s, i) ==
    /\ s \in held
    /\ i \in 1..Len(subviews[s])
    /\ subviews' = [subviews EXCEPT ![s] = RemoveAt(subviews[s], i)]
    /\ frames' = [frames EXCEPT ![s] = Layout(Len(subviews[s]) - 1)]
    /\ probe' = Called("remove_pane", s, i - 1, "ok", 0, FALSE)
    /\ UNCHANGED <<plugin, visible, vertical, dividerThickness, building, locking>>

NextView ==
    \/ \E l \in Labels : ToSplitView(l)
    \/ \E l \in Labels : WindowClosed(l)
    \/ \E s \in Ids : Show(s)
    \/ \E s \in Ids : Hide(s)
    \/ \E s \in Ids : IsVisible(s)
    \/ \E s \in Ids : IsVertical(s)
    \/ \E s \in Ids : PaneCount(s)
    \/ \E s \in Ids, i \in DividerIndexes : GetDividerPosition(s, i)
    \/ \E s \in Ids, v \in NativeViews : AddPane(s, v)
    \/ \E s \in Ids, i \in 1..MaxPanes : RemovePane(s, i)

SpecView == Init /\ [][NextView]_vars

-----------------------------------------------------------------------------
(* The setters of BasicSplitView that are placeholders, on containers a     *)
(* caller adds panes to and installs handlers on.                           *)

divider_thickness(s) == dividerThickness[s]

\* is_pane_collapsed: false without such a pane, else isSubviewCollapsed,
\* which holds of a pane the NSSplitView has shrunk to nothing.
is_pane_collapsed(s, index) ==
    IF pane_at_index(s, index) = None THEN FALSE
    ELSE LET frame == frames[s][index + 1] IN
         (IF is_vertical(s) THEN frame.w ELSE frame.h) = 0

\* The pane indices (the first pane, usize::MAX) and the sizes a caller
\* passes to the setters of a pane.
PaneIndexes == {0, 2^UsizeBits - 1}
PaneSizes == {0, 50}

\* Faulty variant: set_divider_thickness sets the thickness.
ThicknessSetApplied(s, thickness) == [dividerThickness EXCEPT ![s] = thickness]

\* set_divider_thickness: "For now, this is a no-op placeholder".
ThicknessSet(s, thickness) == dividerThickness

SetDividerThickness(s, thickness) ==
    /\ s \in held
    /\ dividerThickness' = ThicknessSet(s, thickness)
    /\ probe' = Called("set_divider_thickness", s, 0, "ok", 0, FALSE)
    /\ UNCHANGED <<plugin, subviews, visible, vertical, frames, building, locking>>

SetPaneCollapsible(s, index, collapsible) ==
    /\ s \in held
    /\ probe' = Called("set_pane_collapsible", s, 0, "ok", 0, FALSE)
    /\ UNCHANGED <<plugin, subviews, native, building, locking>>

SetPaneMinSize(s, index, size) ==
    /\ s \in held
    /\ probe' = Called("set_pane_min_size", s, 0, "ok", 0, FALSE)
    /\ UNCHANGED <<plugin, subviews, native, building, locking>>

SetPaneMaxSize(s, index, size) ==
    /\ s \in held
    /\ probe' = Called("set_pane_max_size", s, 0, "ok", 0, FALSE)
    /\ UNCHANGED <<plugin, subviews, native, building, locking>>

NextSetters ==
    \/ \E l \in Labels : ToSplitView(l)
    \/ \E s \in Ids, v \in NativeViews : AddPane(s, v)
    \/ \E s \in Ids : SetEventHandler(s, "h1")
    \/ \E s \in Ids, thickness \in Thicknesses : SetDividerThickness(s, thickness)
    \/ \E s \in Ids, i \in PaneIndexes, c \in BOOLEAN : SetPaneCollapsible(s, i, c)
    \/ \E s \in Ids, i \in PaneIndexes, size \in PaneSizes : SetPaneMinSize(s, i, size)
    \/ \E s \in Ids, i \in PaneIndexes, size \in PaneSizes : SetPaneMaxSize(s, i, size)

SpecSetters == Init /\ [][NextSetters]_vars

\* C11 as stated: get_divider_position(i) with i >= pane_count() - 1 returns
\* 0.0 and does not fail, whatever the number of panes, zero included.
C11_DividerOutOfRangeIsZero ==
    (probe.op = "get_divider_position" /\ probe.index >= pane_count(probe.sv) - 1)
        => (probe.status = "ok" /\ probe.value = 0)

\* The position of a divider has been asked of a container that a caller
\* emptied, and the call failed.
C11_Witness ==
    /\ probe.op = "get_divider_position"
    /\ pane_count(probe.sv) = 0
    /\ probe.status # "ok"

-----------------------------------------------------------------------------
(* SplitViewBuilder (src/src/builder.rs)                                    *)

\* What a caller passes to the setters of the builder.
DefaultUrl == "index.html"
PaneConfigs == {[kind |-> "Webview", url |-> "left.html"],
                [kind |-> "Webview", url |-> "right.html"],
                [kind |-> "Native", url |-> None]}
Titles == {"Split View"}
Positions == {"at_100_100"}
Sizes == {"800x600"}
Orientations == {"Vertical", "Horizontal"}

\* The closures a caller gives to with_window: one sets the window's title,
\* one its size.
WindowFns == {"fn_title", "fn_size"}
WindowFn(f, wb) ==
    CASE f = "fn_title" -> [wb EXCEPT !.title = "Custom"]
      [] f = "fn_size" -> [wb EXCEPT !.size = "640x480"]
      [] OTHER -> wb

\* What window_builder.build() and the conversion that follows may do.
BuildOutcomes == {"ok", "window_error", "conversion_error"}

\* Faulty variant: the URL of the first Webview pane, wherever it is.
RECURSIVE BuildUrlFirstWebview(_)
BuildUrlFirstWebview(panes) ==
    IF panes = <<>> THEN DefaultUrl
    ELSE IF Head(panes).kind = "Webview" THEN Head(panes).url
    ELSE BuildUrlFirstWebview(Tail(panes))

\* "Use the first pane's URL if available, otherwise use default":
\* panes.first(), and_then the url of a Webview pane, unwrap_or index.html.
BuildUrl(panes) ==
    IF panes # <<>> /\ panes[1].kind = "Webview" THEN panes[1].url ELSE DefaultUrl

\* WebviewWindowBuilder: the attributes of the window to build, and the
\* calls made on it so far.
NewWindowBuilder(url) ==
    [url |-> url, title |-> None, position |-> None, size |-> None, steps |-> <<>>]

WithTitle(wb, b) ==
    IF b.title = None THEN wb
    ELSE [wb EXCEPT !.title = b.title, !.steps = Append(@, "title")]

WithPosition(wb, b) ==
    IF b.position = None THEN wb
    ELSE [wb EXCEPT !.position = b.position, !.steps = Append(@, "position")]

WithSize(wb, b) ==
    IF b.size = None THEN wb
    ELSE [wb EXCEPT !.size = b.size, !.steps = Append(@, "size")]

WithWindowFn(wb, b) ==
    IF b.window_fn = None THEN wb
    ELSE [WindowFn(b.window_fn, wb) EXCEPT !.steps = Append(@, "window_fn")]

\* Faulty variant: the closure of with_window runs before the settings.
ConfiguredWindowFnFirst(b) ==
    WithSize(WithPosition(WithTitle(WithWindowFn(NewWindowBuilder(BuildUrl(b.panes)), b), b), b), b)

\* build() up to window_builder.build(): title, position, size, window_fn.
ConfiguredWindow(b) ==
    WithWindowFn(WithSize(WithPosition(WithTitle(NewWindowBuilder(BuildUrl(b.panes)), b), b), b), b)

\* Faulty variant: build() sets the orientation the builder was given.
ConfiguredVerticalApplied(v, s, o) ==
    IF o = None THEN v ELSE [v EXCEPT ![s] = (o = "Vertical")]

\* "TODO: Apply split view configuration": the orientation, the panes and
\* the divider thickness of the builder are not applied.
ConfiguredVertical(v, s, o) == v

ConfiguredPanes(sub, s, panes) == sub

ConfiguredThickness(th, s, thickness) == th

Built(b, wb, steps, result) ==
    [label |-> b.label, panes |-> b.panes, orientation |-> b.orientation,
     divider_thickness |-> b.divider_thickness, url |-> wb.url, title |-> wb.title,
     position |-> wb.position, size |-> wb.size, steps |-> wb.steps \o steps,
     result |-> result]

\* SplitViewBuilder::new.
NewBuilder(l) ==
    /\ ~builder.active
    /\ builder' = [NoBuilder EXCEPT !.active = TRUE, !.label = l]
    /\ built' = NoBuild
    /\ UNCHANGED <<plugin, subviews, native, created, locking, probe>>

Title(title) ==
    /\ builder.active
    /\ builder' = [builder EXCEPT !.title = title]
    /\ UNCHANGED <<plugin, subviews, native, built, created, locking, probe>>

Position(position) ==
    /\ builder.active
    /\ builder' = [builder EXCEPT !.position = position]
    /\ UNCHANGED <<plugin, subviews, native, built, created, locking, probe>>

Size(size) ==
    /\ builder.active
    /\ builder' = [builder EXCEPT !.size = size]
    /\ UNCHANGED <<plugin, subviews, native, built, created, locking, probe>>

Orientation(orientation) ==
    /\ builder.active
    /\ builder' = [builder EXCEPT !.orientation = orientation]
    /\ UNCHANGED <<plugin, subviews, native, built, created, locking, probe>>

DividerThickness(thickness) ==
    /\ builder.active
    /\ builder' = [builder EXCEPT !.divider_thickness = thickness]
    /\ UNCHANGED <<plugin, subviews, native, built, created, locking, probe>>

WithWindow(f) ==
    /\ builder.active
    /\ builder' = [builder EXCEPT !.window_fn = f]
    /\ UNCHANGED <<plugin, subviews, native, built, created, locking, probe>>

BuilderAddPane(pane) ==
    /\ builder.active
    /\ Len(builder.panes) < MaxPanes
    /\ builder' = [builder EXCEPT !.panes = Append(@, pane)]
    /\ UNCHANGED <<plugin, subviews, native, built, created, locking, probe>>

\* SplitViewBuilder::build.  The window system refuses a label that is in
\* use and may fail otherwise; to_split_view fails when the NSWindow of the
\* new window is unavailable.
Build(outcome) ==
    LET l == builder.label
        wb == ConfiguredWindow(builder)
        s == IdNames[nextId]
    IN
    /\ builder.active
    /\ l \notin created => nextId <= MaxViews
    /\ builder' = NoBuilder
    /\ UNCHANGED <<visible, probe, locking>>
    /\ IF l \in created \/ outcome = "window_error"
       THEN /\ built' = Built(builder, wb, <<"build">>, "window_error")
            /\ lastCall' = Call("build", l, "window_error", registered[l])
            /\ scenario' = Idle
            /\ UNCHANGED <<registry, instances, windows, delegation, held, registered,
                           firstDelegate, lastOp, vertical, frames, dividerThickness,
                           created>>
       ELSE IF outcome = "conversion_error"
       THEN /\ built' = Built(builder, wb, <<"build", "to_split_view">>, ConversionError)
            /\ created' = created \cup {l}
            /\ lastCall' = Call("build", l, ConversionError, registered[l])
            /\ scenario' = Idle
            /\ UNCHANGED <<registry, instances, windows, delegation, held, registered,
                           firstDelegate, lastOp, vertical, frames, dividerThickness>>
       ELSE /\ built' = Built(builder, wb, <<"build", "to_split_view">>, s)
            /\ created' = created \cup {l}
            /\ open' = [open EXCEPT ![l] = TRUE]
            /\ contentView' = SetContentView(l, s)
            /\ subviews' = ConfiguredPanes(AddOriginalSubview(l, s), s, builder.panes)
            /\ frames' = AddOriginalFrame(l, s)
            /\ vertical' = ConfiguredVertical(SetVertical(s), s, builder.orientation)
            /\ dividerThickness' = ConfiguredThickness(
                   [dividerThickness EXCEPT ![s] = NativeThickness], s,
                   builder.divider_thickness)
            /\ label' = [label EXCEPT ![s] = l]
            /\ nextId' = nextId + 1
            /\ split_views' = HashMapInsert(split_views, l, s)
            /\ held' = held \cup {s}
            /\ live' = Referenced(split_views', held')
            /\ original_delegate' = Keep(original_delegate, live', None)
            /\ event_handler' = Keep(event_handler, live', None)
            /\ registered' = [registered EXCEPT ![l] = s]
            /\ scenario' = [sv |-> s, step |-> "fresh", conv |-> delegate[l]]
            /\ firstDelegate' = Keep(firstDelegate, live', "unset")
            /\ lastOp' = Keep(lastOp, live', "none")
            /\ lastCall' = Call("build", l, s, registered[l])
            /\ UNCHANGED delegate

\* No window exists before the first build.
InitBuilder ==
    /\ Start
    /\ open = [l \in Labels |-> FALSE]
    /\ created = {}

NextBuilder ==
    \/ \E l \in Labels : NewBuilder(l)
    \/ \E title \in Titles : Title(title)
    \/ \E position \in Positions : Position(position)
    \/ \E size \in Sizes : Size(size)
    \/ \E orientation \in Orientations : Orientation(orientation)
    \/ \E thickness \in Thicknesses : DividerThickness(thickness)
    \/ \E f \in WindowFns : WithWindow(f)
    \/ \E pane \in PaneConfigs : BuilderAddPane(pane)
    \/ \E outcome \in BuildOutcomes : Build(outcome)
    \/ \E l \in created : ToSplitView(l)

SpecBuilder == InitBuilder /\ [][NextBuilder]_vars

\* C12 as stated: right after build() of a builder to which N panes were
\* added, pane_count() of the split view is N.
C12_BuiltPaneCountIsConfigured ==
    (lastCall.op = "build" /\ built.result \in Ids)
        => pane_count(built.result) = Len(built.panes)

\* A builder with two Webview panes has been built.
C12_Witness ==
    /\ lastCall.op = "build"
    /\ built.result \in Ids
    /\ Len(built.panes) = 2
    /\ \A i \in 1..2 : built.panes[i].kind = "Webview"

-----------------------------------------------------------------------------
(* The registry under concurrent callers: SplitViewManager(Mutex<Store>).   *)
(* A call is a sequence of steps of its thread; the MutexGuard is taken by  *)
(* lock() and given back where Rust drops it.                               *)

\* What the steps of the registry calls leave alone.
unlocked == <<delegate, open, firstDelegate, scenario, lastOp, lastCall, visible,
              probe, building>>

\* The steps between lock() and the drop of the guard.
Critical == {"insert_evict", "insert_put", "drop_evicted", "get_read", "remove_take",
             "unlock"}

Job(op, key, sv, ret, evicted, expect) ==
    [op |-> op, key |-> key, sv |-> sv, ret |-> ret, evicted |-> evicted,
     expect |-> expect]

\* Faulty variant: lock() does not wait for the holder.
LockIgnored == TRUE

\* Mutex::lock returns when no thread holds the guard.
LockFree == lock = None

\* The instances some handle refers to: the entries of the map, the handles
\* of the callers, and the handle insert took out of the map and has not
\* dropped yet (the Option<Arc> it returned), but for that of thread t.
LockReferenced(m, h, t) ==
    Referenced(m, h) \cup
        {s \in Ids : \E u \in Threads \ {t} :
            pc[u] \in {"insert_put", "drop_evicted"} /\ job[u].evicted = s}

\* to_split_view, S::from_window(self.clone(), label.clone())? and
\* Arc::new: the conversion, before the lock is asked for.
FromWindow(t, l) ==
    /\ pc[t] = "idle"
    /\ ns_window(l) # None => nextId <= MaxViews
    /\ UNCHANGED <<split_views, registered, lock, under_lock, unlocked, delegation>>
    /\ IF ns_window(l) = None
       THEN /\ job' = [job EXCEPT ![t] = Job("to_split_view", l, None, ConversionError,
                                              None, None)]
            /\ UNCHANGED <<pc, instances, held, contentView, vertical, frames,
                           dividerThickness>>
       ELSE LET s == IdNames[nextId] IN
            /\ contentView' = SetContentView(l, s)
            /\ subviews' = AddOriginalSubview(l, s)
            /\ frames' = AddOriginalFrame(l, s)
            /\ vertical' = SetVertical(s)
            /\ dividerThickness' = [dividerThickness EXCEPT ![s] = NativeThickness]
            /\ label' = [label EXCEPT ![s] = l]
            /\ nextId' = nextId + 1
            /\ held' = held \cup {s}
            /\ live' = live \cup {s}
            /\ job' = [job EXCEPT ![t] = Job("to_split_view", l, s, s, None, None)]
            /\ pc' = [pc EXCEPT ![t] = "acquire"]

\* to_split_view, manager.0.lock().unwrap()
Acquire(t) ==
    /\ pc[t] = "acquire"
    /\ LockFree
    /\ lock' = t
    /\ pc' = [pc EXCEPT ![t] = "insert_evict"]
    /\ UNCHANGED <<split_views, instances, held, contentView, registered, native,
                   delegation, job, under_lock, unlocked>>

\* HashMap::insert, first half: the entry the key had leaves the map.
InsertEvict(t) ==
    /\ pc[t] = "insert_evict"
    /\ split_views' = HashMapRemove(split_views, job[t].key)
    /\ job' = [job EXCEPT ![t].evicted = HashMapGet(split_views, job[t].key)]
    /\ pc' = [pc EXCEPT ![t] = "insert_put"]
    /\ UNCHANGED <<instances, held, contentView, registered, native, delegation,
                   lock, under_lock, unlocked>>

\* HashMap::insert, second half: the new entry enters the map; the insert
\* takes effect here.
InsertPut(t) ==
    /\ pc[t] = "insert_put"
    /\ split_views' = split_views \cup {<<job[t].key, job[t].sv>>}
    /\ registered' = [registered EXCEPT ![job[t].key] = job[t].sv]
    /\ pc' = [pc EXCEPT ![t] = "drop_evicted"]
    /\ UNCHANGED <<instances, held, contentView, native, delegation, job, lock,
                   under_lock, unlocked>>

\* End of the statement `manager.0.lock().unwrap().split_views.insert(..);`:
\* its temporaries are dropped in reverse order of creation, the
\* Option<Arc> insert returned before the MutexGuard.  Dropping the last
\* handle of the evicted instance drops the BasicSplitView and releases its
\* NSSplitView.
DropEvicted(t) ==
    /\ pc[t] = "drop_evicted"
    /\ live' = LockReferenced(split_views, held, t)
    /\ original_delegate' = Keep(original_delegate, live', None)
    /\ event_handler' = Keep(event_handler, live', None)
    /\ under_lock' = IF job[t].evicted \in live \ live' /\ lock = t
                     THEN job[t].evicted ELSE under_lock
    /\ pc' = [pc EXCEPT ![t] = "unlock"]
    /\ UNCHANGED <<split_views, nextId, label, subviews, held, contentView,
                   registered, native, job, lock, unlocked>>

\* get_split_view, let manager = self.state(); manager.0.lock().unwrap()
GetLock(t, k) ==
    /\ pc[t] = "idle"
    /\ LockFree
    /\ lock' = t
    /\ job' = [job EXCEPT ![t] = Job("get_split_view", k, None, None, None, None)]
    /\ pc' = [pc EXCEPT ![t] = "get_read"]
    /\ UNCHANGED <<split_views, instances, held, contentView, registered, native,
                   delegation, under_lock, unlocked>>

\* get_split_view, split_views.get(label) and the clone of the handle.
GetRead(t) ==
    LET ret == get_split_view(job[t].key) IN
    /\ pc[t] = "get_read"
    /\ held' = IF ret = SplitViewNotFound THEN held ELSE held \cup {ret}
    /\ job' = [job EXCEPT ![t].ret = ret, ![t].expect = registered[job[t].key]]
    /\ pc' = [pc EXCEPT ![t] = "unlock"]
    /\ UNCHANGED <<split_views, instances, contentView, registered, native,
                   delegation, lock, under_lock, unlocked>>

\* remove_split_view, self.state().0.lock().unwrap()
RemoveLock(t, k) ==
    /\ pc[t] = "idle"
    /\ LockFree
    /\ lock' = t
    /\ job' = [job EXCEPT ![t] = Job("remove_split_view", k, None, None, None, None)]
    /\ pc' = [pc EXCEPT ![t] = "remove_take"]
    /\ UNCHANGED <<split_views, instances, held, contentView, registered, native,
                   delegation, under_lock, unlocked>>

\* remove_split_view, split_views.remove(label): the value is the result of
\* the function and goes to the caller.
RemoveTake(t) ==
    LET ret == remove_return(job[t].key) IN
    /\ pc[t] = "remove_take"
    /\ split_views' = HashMapRemove(split_views, job[t].key)
    /\ held' = IF ret = None THEN held ELSE held \cup {ret}
    /\ registered' = [registered EXCEPT ![job[t].key] = None]
    /\ job' = [job EXCEPT ![t].ret = ret, ![t].expect = registered[job[t].key]]
    /\ pc' = [pc EXCEPT ![t] = "unlock"]
    /\ UNCHANGED <<instances, contentView, native, delegation, lock, under_lock,
                   unlocked>>

\* The MutexGuard is dropped and the call returns.
Unlock(t) ==
    /\ pc[t] = "unlock"
    /\ lock' = IF lock = t THEN None ELSE lock
    /\ pc' = [pc EXCEPT ![t] = "idle"]
    /\ job' = [job EXCEPT ![t] = NoJob]
    /\ UNCHANGED <<split_views, instances, held, contentView, registered, native,
                   delegation, under_lock, unlocked>>

\* A thread drops a handle it was given by an earlier call.
ThreadDrop(t, s) ==
    /\ pc[t] = "idle"
    /\ s \in held
    /\ \A u \in Threads : pc[u] = "idle" \/ job[u].sv # s
    /\ held' = held \ {s}
    /\ live' = LockReferenced(split_views, held', t)
    /\ original_delegate' = Keep(original_delegate, live', None)
    /\ event_handler' = Keep(event_handler, live', None)
    /\ UNCHANGED <<split_views, nextId, label, subviews, contentView, registered,
                   native, locking, unlocked>>

NextLock ==
    \/ \E t \in Threads, l \in Labels : FromWindow(t, l)
    \/ \E t \in Threads : Acquire(t)
    \/ \E t \in Threads : InsertEvict(t)
    \/ \E t \in Threads : InsertPut(t)
    \/ \E t \in Threads : DropEvicted(t)
    \/ \E t \in Threads, k \in Keys : GetLock(t, k)
    \/ \E t \in Threads : GetRead(t)
    \/ \E t \in Threads, k \in Keys : RemoveLock(t, k)
    \/ \E t \in Threads : RemoveTake(t)
    \/ \E t \in Threads : Unlock(t)
    \/ \E t \in Threads, s \in Ids : ThreadDrop(t, s)
    \/ \E l \in Labels : WindowClosed(l)

SpecLock == Init /\ [][NextLock]_vars

\* C13 as stated: no instance, and with it no container view, is released
\* while the lock of the registry is held.
C13_NoNativeCallUnderLock == under_lock = None

\* A re-registration has evicted a handle that no caller held any more, and
\* the evicting thread still holds the lock.
C13_Witness ==
    \E t \in Threads :
        /\ lock = t
        /\ pc[t] = "unlock"
        /\ job[t].op = "to_split_view"
        /\ job[t].evicted \in Ids
        /\ job[t].evicted \notin live

\* C14: the steps between lock() and the drop of the guard belong to one
\* thread at a time; outside an insert the map is the result of the inserts
\* and removes in the order they took effect; a lookup of L returns the
\* handle registered under L at the point of its read, or NotFound when
\* there is none, and a remove returns that handle or None.
C14_RegistryCallsAtomic ==
    /\ \A t \in Threads : pc[t] \in Critical => lock = t
    /\ (\A t \in Threads : pc[t] # "insert_put") =>
           split_views = {<<k, registered[k]>> : k \in {j \in Keys : registered[j] # None}}
    /\ \A t \in Threads :
           (pc[t] = "unlock" /\ job[t].op = "get_split_view") =>
               job[t].ret = IF job[t].expect = None THEN SplitViewNotFound
                            ELSE job[t].expect
    /\ \A t \in Threads :
           (pc[t] = "unlock" /\ job[t].op = "remove_split_view") =>
               job[t].ret = job[t].expect

\* A lookup has read the map while another thread, its conversion done,
\* waits for the lock to register the same label again.
C14_Witness ==
    \E t \in Threads : \E u \in Threads :
        /\ pc[t] = "unlock"
        /\ job[t].op = "get_split_view"
        /\ job[t].ret \in Ids
        /\ pc[u] = "acquire"
        /\ job[u].key = job[t].key

-----------------------------------------------------------------------------
(* Conversion of a window without NSWindow, under Spec                      *)

\* C15: a to_split_view on a window whose NSWindow is unavailable returns
\* the conversion error and changes neither the window's content view nor
\* the instances nor the registry.
C15_FailedConversionTouchesNothing ==
    [][(lastCall'.op = "to_split_view" /\ ~open[lastCall'.arg]) =>
          /\ lastCall'.ret = ConversionError
          /\ UNCHANGED <<contentView, subviews, frames, split_views, nextId, live,
                         held, label>>]_vars

\* A conversion has failed on a closed window that was converted before and
\* is still registered.
C15_Witness ==
    /\ lastCall.op = "to_split_view"
    /\ lastCall.ret = ConversionError
    /\ contentView[lastCall.arg] \in Ids
    /\ split_views # {}

-----------------------------------------------------------------------------
(* The builder: the URL, the order of the steps, the orientation            *)

Includes(seq, e) == \E i \in 1..Len(seq) : seq[i] = e

\* The order of the steps the claim gives.
StepOrder == <<"title", "position", "size", "window_fn", "build", "to_split_view">>
Rank(step) == CHOOSE i \in 1..Len(StepOrder) : StepOrder[i] = step
InOrder(steps) ==
    \A i \in 1..Len(steps) : \A j \in 1..Len(steps) :
        i < j => Rank(steps[i]) < Rank(steps[j])

\* C16 as stated: the window opens on the URL of the first Webview pane of
\* the list, wherever it is, and on index.html when there is none.
C16_UrlOfFirstWebviewPane ==
    built.label # None => built.url = BuildUrlFirstWebview(built.panes)

\* C16 amended: the window opens on the URL of the first pane of the list
\* when that pane is a Webview pane, and on index.html when the list is
\* empty or begins with a Native pane.
C16_UrlOfFirstPaneIfWebview ==
    built.label # None =>
        /\ built.panes = <<>> => built.url = DefaultUrl
        /\ (built.panes # <<>> /\ built.panes[1].kind = "Webview")
              => built.url = built.panes[1].url
        /\ (built.panes # <<>> /\ built.panes[1].kind = "Native")
              => built.url = DefaultUrl

\* A builder whose list has a Native pane before a Webview pane has been
\* built.
C16_Witness ==
    /\ built.label # None
    /\ Len(built.panes) = 2
    /\ built.panes[1].kind = "Native"
    /\ built.panes[2].kind = "Webview"
    /\ built.url = DefaultUrl

\* C17: build() applies title, position and size, then the with_window
\* closure, then builds the window, then converts it and registers the
\* handle; what the closure sets wins over the settings of the builder; when
\* the window cannot be built the error is returned, no conversion is
\* attempted and the registry and the instances are as before.
C17_BuildOrder ==
    [][(builder.active /\ ~builder'.active) =>
          /\ InOrder(built'.steps)
          /\ Includes(built'.steps, "build")
          /\ \A f \in {"title", "position", "size", "window_fn"} :
                 Includes(built'.steps, f) <=> builder[f] # None
          /\ built'.title = IF builder.window_fn = "fn_title" THEN "Custom"
                            ELSE builder.title
          /\ built'.size = IF builder.window_fn = "fn_size" THEN "640x480"
                           ELSE builder.size
          /\ built'.position = builder.position
          /\ built'.result = "window_error" =>
                 /\ ~Includes(built'.steps, "to_split_view")
                 /\ UNCHANGED <<split_views, registered, nextId, live, held,
                                contentView, subviews>>
          /\ built'.result \in Ids =>
                 /\ Includes(built'.steps, "to_split_view")
                 /\ <<builder.label, built'.result>> \in split_views']_vars

\* A builder with a title and a closure that sets another title has been
\* built, and the window has the closure's title.
C17_Witness ==
    /\ built.result \in Ids
    /\ built.steps = <<"title", "window_fn", "build", "to_split_view">>
    /\ built.title = "Custom"

-----------------------------------------------------------------------------
(* The window of a split view that is in no window                          *)

\* C18: on a split view whose window cannot be resolved show() and hide()
\* change no window and do not fail, and is_visible() returns false.
C18_UnresolvableWindowNoOps ==
    [][(lastCall' = lastCall /\ window(probe'.sv) = None) =>
          /\ probe'.op \in {"show", "hide"} =>
                 /\ probe'.status = "ok"
                 /\ UNCHANGED <<visible, open, delegate, contentView, subviews>>
          /\ probe'.op = "is_visible" => ~probe'.flag]_vars

\* show() has been called on a split view whose window was hidden and then
\* closed.
C18_Witness ==
    /\ probe.op = "show"
    /\ window(probe.sv) = None
    /\ ~visible[label[probe.sv]]

-----------------------------------------------------------------------------
(* Uninstall while a custom handler is active                               *)

\* C20 as stated: set_event_handler(None) on a split view with a custom
\* handler stored and a resolvable window clears event_handler and makes
\* original_delegate the window's delegate, also when the window had no
\* delegate at the first install.
C20_UninstallClearsAndRestores ==
    [][\A s \in Ids :
          (lastCall'.op = "uninstall" /\ lastCall'.arg = s
              /\ event_handler[s] # None /\ window(s) # None)
             => /\ event_handler'[s] = None
                /\ delegate'[window(s)] = original_delegate[s]]_vars

\* An uninstall has run on a split view that stored a custom handler, on a
\* window without a delegate, and the handler is still stored and active.
C20_Witness ==
    /\ scenario.step = "restored"
    /\ scenario.conv = None
    /\ event_handler[scenario.sv] # None
    /\ delegate[label[scenario.sv]] = event_handler[scenario.sv]

-----------------------------------------------------------------------------
(* Uninstall with no custom handler stored                                  *)

\* C21 as stated: set_event_handler(None) on a split view that stores no
\* custom handler changes neither the window's delegate nor
\* original_delegate nor event_handler, whoever set the window's delegate
\* since.
C21_UninstallUnmanagedIsNoop ==
    [][\A s \in Ids :
          (lastCall'.op = "uninstall" /\ lastCall'.arg = s /\ event_handler[s] = None)
             => UNCHANGED <<delegate, original_delegate, event_handler>>]_vars

\* An uninstall on a split view without a stored handler has set the
\* window's delegate to its original delegate while another split view of
\* the window stores a handler.
C21_Witness ==
    /\ lastCall.op = "uninstall"
    /\ event_handler[lastCall.arg] = None
    /\ original_delegate[lastCall.arg] # None
    /\ delegate[label[lastCall.arg]] = original_delegate[lastCall.arg]
    /\ \E t \in Ids : event_handler[t] \in Handlers

-----------------------------------------------------------------------------
(* What a conversion leaves behind                                          *)

\* C22: a successful to_split_view of a window makes the new container the
\* window's content view and the previous content view the container's
\* first and only pane, and the instance it returns has the window's label.
C22_ConversionResult ==
    [][\A s \in Ids : \A l \in Labels :
          (lastCall'.op = "to_split_view" /\ lastCall'.ret = s /\ lastCall'.arg = l
              /\ nextId' # nextId)
             => /\ contentView'[l] = s
                /\ pane_at_index(s, 0)' = contentView[l]
                /\ pane_count(s)' = 1
                /\ label'[s] = l]_vars

\* A window has been converted a second time: the first container is the
\* only pane of the second.
C22_Witness ==
    /\ lastCall.op = "to_split_view"
    /\ lastCall.ret = IdNames[2]
    /\ contentView[lastCall.arg] = IdNames[2]
    /\ pane_at_index(IdNames[2], 0) = IdNames[1]
    /\ pane_at_index(IdNames[1], 0) = WebviewOf[lastCall.arg]

-----------------------------------------------------------------------------
(* The setters that are placeholders                                        *)

NoOpSetters == {"set_divider_thickness", "set_pane_collapsible", "set_pane_min_size",
                "set_pane_max_size"}

\* C23: set_divider_thickness, set_pane_collapsible, set_pane_min_size and
\* set_pane_max_size leave divider_thickness(), pane_count(),
\* is_pane_collapsed(i), the divider positions, the delegate fields and the
\* registry as they were, whatever index and value they are given.
C23_PlaceholderSettersChangeNothing ==
    [][(probe'.op \in NoOpSetters /\ probe' # probe) =>
          /\ \A s \in Ids :
                /\ divider_thickness(s)' = divider_thickness(s)
                /\ pane_count(s)' = pane_count(s)
                /\ \A i \in DividerIndexes :
                      /\ is_pane_collapsed(s, i)' = is_pane_collapsed(s, i)
                      /\ \A b \in BOOLEAN :
                            get_divider_position(s, i, b)' = get_divider_position(s, i, b)
          /\ UNCHANGED <<original_delegate, event_handler, delegate, split_views,
                         subviews, frames, vertical, visible, contentView>>]_vars

\* Each of the four setters has been called on a container with two panes;
\* here the thickness setter, with a thickness the container does not have.
C23_Witness ==
    /\ probe.op = "set_divider_thickness"
    /\ pane_count(probe.sv) = 2
    /\ divider_thickness(probe.sv) = NativeThickness
    /\ NativeThickness \notin Thicknesses

-----------------------------------------------------------------------------
(* The registered handle and the content view, with concurrent conversions  *)

\* C24 as stated: while no call on the registry is in progress, the handle
\* registered under a label is the one whose container is the content view
\* of the window of that label, also after two to_split_view calls on one
\* window whose conversions and inserts interleaved.
C24_RegisteredIsContentView ==
    (\A t \in Threads : pc[t] = "idle") =>
        \A l \in Labels :
            HashMapGet(split_views, l) # None =>
                contentView[l] = HashMapGet(split_views, l)

\* Two to_split_view calls on one window have both returned and the window
\* is open: the conversion of the first came before the conversion of the
\* second, its insert after the insert of the second.
C24_Witness ==
    /\ \A t \in Threads : pc[t] = "idle"
    /\ \E l \in Labels :
          /\ open[l]
          /\ label[IdNames[1]] = l
          /\ label[IdNames[2]] = l
          /\ nextId > 2
          /\ HashMapGet(split_views, l) = IdNames[1]
          /\ contentView[l] = IdNames[2]

-----------------------------------------------------------------------------
(* The stored handler and the window's delegate                             *)

\* The state of split view s agrees with the delegate of its window: a
\* stored handler is the window's delegate, and with none stored after an
\* install the window's delegate is original_delegate.
HandlerIsActive(s) ==
    IF event_handler[s] # None
    THEN delegate[label[s]] = event_handler[s]
    ELSE firstDelegate[s] # "unset" => delegate[label[s]] = original_delegate[s]

\* C25: a set_event_handler call on a split view whose window is resolvable,
\* made when the window's delegate was last changed through this split view
\* (or not at all since it was created), ends with event_handler present
\* exactly when the window's delegate is that handler, and, with
\* event_handler absent after some install, with the window's delegate being
\* original_delegate.
C25_HandlerPresentIffActive ==
    [][\A s \in Ids :
          (lastCall'.op \in {"install", "uninstall"} /\ lastCall'.arg = s
              /\ window(s) # None /\ HandlerIsActive(s))
             => /\ HandlerIsActive(s)'
                /\ event_handler'[s] # None => delegate'[label[s]] \in Handlers
                /\ lastCall'.op = "install" => event_handler'[s] # None]_vars

\* An uninstall has returned early on a window that had no delegate when the
\* handler was installed: the handler is still stored and still active.
C25_Witness ==
    /\ lastCall.op = "uninstall"
    /\ window(lastCall.arg) # None
    /\ firstDelegate[lastCall.arg] = None
    /\ original_delegate[lastCall.arg] = None
    /\ event_handler[lastCall.arg] \in Handlers
    /\ delegate[label[lastCall.arg]] = event_handler[lastCall.arg]

-----------------------------------------------------------------------------
(* set_event_handler without a window                                       *)

\* C26: set_event_handler, with a handler or with None, on a split view
\* whose container is in the view hierarchy of no open window leaves
\* original_delegate, event_handler and the delegate of every window as they
\* were, and returns.
C26_UnresolvableWindowInstallsNothing ==
    [][\A s \in Ids :
          (lastCall'.op \in {"install", "uninstall"} /\ lastCall'.arg = s
              /\ ~\E l \in Labels : open[l] /\ InHierarchy(s, contentView[l], MaxViews))
             => UNCHANGED <<original_delegate, event_handler, delegate>>]_vars

\* A handler has been given to a split view that stores another one, after
\* its window was closed: the stored handler and the delegate are the old
\* ones.
C26_Witness ==
    /\ lastCall.op = "install"
    /\ ~open[label[lastCall.arg]]
    /\ lastOp[lastCall.arg] = "install"
    /\ event_handler[lastCall.arg] \in Handlers
    /\ delegate[label[lastCall.arg]] = event_handler[lastCall.arg]
    /\ original_delegate[lastCall.arg] # None

-----------------------------------------------------------------------------
(* Keys of the registry and labels of the handles                           *)

\* C27: every entry of the registry has the label of its handle as its key,
\* which is the label of the window whose conversion made the handle and in
\* whose view hierarchy the container was put; a conversion registers its
\* handle under the label of the converted window, and the label of an
\* instance never changes once it is created.
C27_EntryKeyIsLabel ==
    /\ [](\A p \in split_views :
             /\ p[1] \in Labels
             /\ label[p[2]] = p[1]
             /\ InHierarchy(p[2], contentView[p[1]], MaxViews))
    /\ [][/\ \A s \in Ids : label[s] # None => label'[s] = label[s]
          /\ (lastCall'.op = "to_split_view" /\ lastCall'.ret \in Ids /\ nextId' # nextId)
                => /\ label'[lastCall'.ret] = lastCall'.arg
                   /\ split_views' = HashMapInsert(split_views, lastCall'.arg, lastCall'.ret)
                   /\ \A p \in split_views' : p[2] = lastCall'.ret => p[1] = lastCall'.arg]_vars

\* A window has been converted twice and both handles are held: the registry
\* has one entry, for the second handle under the label of the window, and
\* the first handle still has that label.
C27_Witness ==
    \E l \in Labels :
        /\ split_views = {<<l, IdNames[2]>>}
        /\ label[IdNames[1]] = l
        /\ label[IdNames[2]] = l
        /\ {IdNames[1], IdNames[2]} \subseteq held
        /\ lastCall.op = "get_split_view"

====
